---- MODULE Spec2Model ----
(***************************************************************************)
(* Model of the OCI request authenticator of oci_openai.py: HttpxOciAuth   *)
(* (refresh policy, lock, auth_flow generator) driven by an httpx client,  *)
(* either from worker threads (OciOpenAI) or from one event loop           *)
(* (AsyncOciOpenAI).                                                       *)
(***************************************************************************)
EXTENDS Integers, Sequences, FiniteSets, TLC

\* ---------------------------------------------------------------- bounds
NumFlows == 2         \* requests issued through one authenticator
MaxTime == 3          \* the clock runs 1..MaxTime
MaxInterval == 2      \* refresh_interval is drawn from 0..MaxInterval
MaxProbe == 3         \* timestamps and intervals tried on _should_refresh_token

StartTime == 1        \* time.time() when the authenticator is constructed

Flows == 1..NumFlows
NoFlow == 0
Statuses == {200, 401, 500}
Modes == {"threads", "eventloop"}

\* Optional[T]: None is the empty sequence, a value t is <<t>>.
None == <<>>
Some(t) == <<t>>

\* A Python str is the sequence of its tokens; "" is the empty sequence. A
\* token is a run of characters that the program never splits.
EmptyStr == <<>>
\* Python truthiness of an Optional[str]: None and "" are false.
Truthy(o) == o # None /\ o[1] # EmptyStr

\* Header names, lines 27-29.
COMPARTMENT_ID_HEADER == "CompartmentId"
OPC_COMPARTMENT_ID_HEADER == "opc-compartment-id"
CONVERSATION_STORE_ID_HEADER == "opc-conversation-store-id"

\* Compartment ids a client of the authenticator model is constructed with.
CompartmentIds == {None, Some(<<"ocid1.compartment.oc1..a">>)}

VARIABLES
    mode,             \* "threads": OciOpenAI used from worker threads;
                      \* "eventloop": AsyncOciOpenAI, one thread, many requests
    running,          \* eventloop: the flow whose generator code occupies the loop thread
    clock,            \* time.time()
    refresh_interval, \* self.refresh_interval
    signer,           \* self.signer: identity of the current signer object (0 = built by __init__)
    last_refresh,     \* self._last_refresh
    lock,             \* self._lock: NoFlow when free, else the flow holding it
    pc,               \* position of each auth_flow generator
    sent,             \* per flow: the requests it has yielded (forwarded), oldest first
    resp1,            \* per flow: status of the response to the first attempt (0 = none yet)
    result,           \* per flow: <<attempt, status>> of the response handed to the caller
    proCalls,         \* per flow: calls of _refresh_signer made by _refresh_if_needed
    forcedCalls,      \* per flow: calls of _refresh_signer made by the 401 branch
    proOutcome,       \* per flow: "none" | "ok" | "fail" of its proactive refresh
    forcedOutcome,    \* per flow: "none" | "refreshed" | "ok" | "signfail" | "fail" of its
                      \* forced refresh and re-signing
    refreshedAt,      \* per flow: clock at which its proactive refresh completed (0 = none)
    peerFresh,        \* per flow: when it checked staleness, a flow it raced with had
                      \* completed a proactive refresh less than refresh_interval before
    racing,           \* pairs of flows that were inside _refresh_if_needed together while Stale
    accessLocked,     \* per flow: every access to (signer, _last_refresh) so far was under the lock
    lastOk,           \* clock at which the latest _refresh_signer call returned (0 = none yet)
    probe,            \* inputs and output of one isolated evaluation of a pure function
    http_client_headers, \* default headers of the httpx client built by OciOpenAI.__init__
    heap,             \* the signer objects built so far; self.signer refers to heap[signer + 1]
    content,          \* per flow: the local "content" of auth_flow (None before it is captured)
    forcedSigner,     \* per flow: the signer installed by its own 401-forced refresh (0 = none)
    proFailed,        \* a call of _refresh_signer made by _refresh_if_needed raised and no
                      \* call of _refresh_signer has returned since
    variant,          \* the class of the authenticator (which _refresh_signer it runs)
    identity,         \* the identity service as the principal variants use it: number of
                      \* signer requests received, the keyword arguments seen, the last
                      \* signer issued
    config            \* self.config of the user-principal authenticator: the read of the
                      \* configuration file it holds, numbered like the signer built from
                      \* that read (None for the other variants)

vars == <<mode, running, clock, refresh_interval, signer, last_refresh, lock, pc, sent,
          resp1, result, proCalls, forcedCalls, proOutcome, forcedOutcome, refreshedAt,
          peerFresh, racing, accessLocked, lastOk, forcedSigner, proFailed, probe,
          http_client_headers, heap, content, variant, identity, config>>

authVars == <<signer, last_refresh>>
histVars == <<proCalls, forcedCalls, proOutcome, forcedOutcome, refreshedAt, peerFresh,
              racing, accessLocked, lastOk, forcedSigner, proFailed>>

\* ------------------------------------------------------- pure functions

\* Mutant: the staleness test inside the lock is dropped (always Stale).
should_refresh_token_always(last, now, interval) == TRUE

\* Mutant: the elapsed time is compared one second short of the interval.
should_refresh_token_early(last, now, interval) ==
    IF last = None \/ last[1] = 0
    THEN TRUE
    ELSE (now - last[1]) >= interval - 1

\* Mutant: the elapsed time is compared with > instead of >=.
should_refresh_token_strict(last, now, interval) ==
    IF last = None \/ last[1] = 0
    THEN TRUE
    ELSE (now - last[1]) > interval

\* HttpxOciAuth._should_refresh_token: "not self._last_refresh" is true of None
\* and of the number 0; otherwise elapsed time is compared with >=.
should_refresh_token(last, now, interval) ==
    IF last = None \/ last[1] = 0
    THEN TRUE
    ELSE (now - last[1]) >= interval

\* Mutant: a header is emitted for every id that is not None, the empty
\* string included.
build_headers_not_none(compartment_id, conversation_store_id) ==
    LET names == (IF compartment_id # None
                  THEN {COMPARTMENT_ID_HEADER, OPC_COMPARTMENT_ID_HEADER} ELSE {})
                 \cup (IF conversation_store_id # None
                       THEN {CONVERSATION_STORE_ID_HEADER} ELSE {})
    IN  [n \in names |-> IF n = CONVERSATION_STORE_ID_HEADER
                         THEN conversation_store_id[1] ELSE compartment_id[1]]

\* _build_headers: a dict holding the two compartment headers when
\* compartment_id is truthy and the conversation-store header when
\* conversation_store_id is truthy.
build_headers(compartment_id, conversation_store_id) ==
    LET names == (IF Truthy(compartment_id)
                  THEN {COMPARTMENT_ID_HEADER, OPC_COMPARTMENT_ID_HEADER} ELSE {})
                 \cup (IF Truthy(conversation_store_id)
                       THEN {CONVERSATION_STORE_ID_HEADER} ELSE {})
    IN  [n \in names |-> IF n = CONVERSATION_STORE_ID_HEADER
                         THEN conversation_store_id[1] ELSE compartment_id[1]]

\* The four concrete authenticators (subclasses of HttpxOciAuth).
Variants == {"session", "resource_principal", "instance_principal", "user_principal"}
\* The two whose signer comes from the identity service.
PrincipalVariants == {"resource_principal", "instance_principal"}

\* The signer constructor each __init__ calls.
signer_class(v) ==
    CASE v = "session" -> "SecurityTokenSigner"
      [] v = "resource_principal" -> "get_resource_principals_signer"
      [] v = "instance_principal" -> "InstancePrincipalsSecurityTokenSigner"
      [] v = "user_principal" -> "Signer"

\* Mutant: every _refresh_signer builds a session token signer.
refresh_signer_class_session(v) == "SecurityTokenSigner"

\* The signer constructor each _refresh_signer calls.
refresh_signer_class(v) ==
    CASE v = "session" -> "SecurityTokenSigner"
      [] v = "resource_principal" -> "get_resource_principals_signer"
      [] v = "instance_principal" -> "InstancePrincipalsSecurityTokenSigner"
      [] v = "user_principal" -> "Signer"

\* A signer object as its constructor returns it: the token and the private
\* key are those of credential load k (0 = the load made by __init__); the
\* variant is the kind of signer the authenticator's __init__ builds.
build_signer(k) ==
    [id |-> k, token |-> k, private_key |-> k, variant |-> signer_class(variant)]

\* self.kwargs of a principal authenticator, stored by __init__.
SignerKwargs == <<"kwargs">>

\* The arguments of one call of get_resource_principals_signer /
\* InstancePrincipalsSecurityTokenSigner: the keyword arguments, unpacked.
principal_signer_request(kw) == kw

\* Mutant: _refresh_signer asks the identity service twice.
identity_refresh_twice(idn, ok, new) ==
    IF variant \in PrincipalVariants
    THEN [requests |-> idn.requests + 2,
          kwargs |-> idn.kwargs \cup {principal_signer_request(SignerKwargs)},
          issued |-> IF ok THEN Some(new) ELSE idn.issued]
    ELSE idn

\* The identity service after one call of _refresh_signer: the principal
\* variants ask it for one signer with self.kwargs (the call returns the
\* signer, ok, or raises); the session and user variants read local files
\* and do not ask it.
identity_refresh(idn, ok, new) ==
    IF variant \in PrincipalVariants
    THEN [requests |-> idn.requests + 1,
          kwargs |-> idn.kwargs \cup {principal_signer_request(SignerKwargs)},
          issued |-> IF ok THEN Some(new) ELSE idn.issued]
    ELSE idn

\* Mutant: the refresh loads the new token into the signer object that is
\* already in use instead of building a new object.
refresh_signer_in_place(h, sg) ==
    [heap |-> [h EXCEPT ![sg + 1].token = @ + 1], signer |-> sg]

\* _refresh_signer (all four variants) when it returns: a new signer object
\* is built from freshly loaded credentials and only then assigned to
\* self.signer; the objects built before are not touched.
refresh_signer(h, sg) ==
    [heap |-> Append(h, [build_signer(sg + 1) EXCEPT
                            !.variant = refresh_signer_class(variant)]),
     signer |-> sg + 1]

\* Mutant: the httpx client is built without the default headers.
httpx_request_without_defaults(f) ==
    [method |-> IF f % 2 = 1 THEN "POST" ELSE "GET",
     url |-> IF f % 2 = 1 THEN "/chat/completions" ELSE "/models",
     body |-> IF f % 2 = 1 THEN <<"payload", f>> ELSE <<>>,
     headers |-> <<>>]

\* The request httpx hands to auth_flow: method, URL and body as the caller
\* gave them, headers starting from the client's default headers.
httpx_request(f) ==
    [method |-> IF f % 2 = 1 THEN "POST" ELSE "GET",
     url |-> IF f % 2 = 1 THEN "/chat/completions" ELSE "/models",
     body |-> IF f % 2 = 1 THEN <<"payload", f>> ELSE <<>>,
     headers |-> http_client_headers]

\* Mutant: the body is read from the request stream each time a request is
\* prepared; a stream that was read once yields nothing more.
prepare_reads_stream(f, data) ==
    [id |-> f, method |-> httpx_request(f).method, url |-> httpx_request(f).url,
     headers |-> httpx_request(f).headers,
     data |-> IF content[f] = None THEN httpx_request(f).body ELSE <<>>]

\* requests.Request(method, url, headers=dict(request.headers), data).prepare()
prepare(f, data) ==
    [id |-> f, method |-> httpx_request(f).method, url |-> httpx_request(f).url,
     headers |-> httpx_request(f).headers, data |-> data]

\* signer.do_request_sign followed by request.headers.update: the forwarded
\* request carries the prepared request's headers plus signature headers that
\* are a function of the signer object and of the prepared request.
do_request_sign(sg, req) == [signer |-> sg, request |-> req]

\* --------------------------------------------------------- scheduling

\* A generator may be entered or resumed (next / send / close by httpx) when
\* its thread is free: always in thread mode, only when no other generator
\* occupies the loop thread in event-loop mode.
CanResume(f) == mode = "threads" \/ running = NoFlow
\* Code between two yields runs on the thread that entered the generator.
CanRun(f) == mode = "threads" \/ running = f
Enter(f) == IF mode = "eventloop" THEN f ELSE NoFlow

\* Flow f raced with a flow whose proactive refresh completed less than
\* refresh_interval ago (observation only; the code does not read it).
RacedWithFresh(f) ==
    \E g \in Flows \ {f} :
        /\ {f, g} \in racing
        /\ proOutcome[g] = "ok"
        /\ clock - refreshedAt[g] < refresh_interval

\* ------------------------------------------------------------ initial state

NoProbe == [phase |-> "off", last |-> None, now |-> 0, interval |-> 0, out |-> FALSE]

\* Mutant: __init__ leaves _last_refresh unset.
init_last_refresh_unset(now) == None

\* HttpxOciAuth.__init__, line 181: self._last_refresh = time.time()
init_last_refresh(now) == Some(now)

\* The statement of OciUserPrincipalAuth._refresh_signer that raises when
\* the call fails: the re-read of the file, the validation of what was read,
\* or the construction of the signer.
RefreshFailures == {"from_file", "validate_config", "Signer"}

\* self.config after one call of OciUserPrincipalAuth._refresh_signer that
\* returned (ok) or raised at the statement failed: the configuration read is
\* assigned to self.config as soon as from_file returns, before it is
\* validated and before the signer is built from it. new is the number of
\* the signer this call builds when it returns.
refresh_config(cfg, ok, failed, new) ==
    IF variant # "user_principal" THEN cfg
    ELSE IF ok \/ failed # "from_file" THEN Some(new)
    ELSE cfg

\* __init__ of the concrete authenticator v: the principal variants store
\* kwargs and ask the identity service for the first signer.
BackendInit(v) ==
    /\ variant = v
    /\ identity = IF v \in PrincipalVariants
                  THEN [requests |-> 1, kwargs |-> {principal_signer_request(SignerKwargs)},
                        issued |-> Some(0)]
                  ELSE [requests |-> 0, kwargs |-> {}, issued |-> None]
    /\ config = IF v = "user_principal" THEN Some(0) ELSE None

\* HttpxOciAuth.__init__: signer stored, lock created free, _last_refresh = time.time()
AuthInit ==
    /\ running = NoFlow
    /\ clock = StartTime
    /\ signer = 0
    /\ last_refresh = init_last_refresh(clock)
    /\ lock = NoFlow
    /\ pc = [f \in Flows |-> "idle"]
    /\ sent = [f \in Flows |-> <<>>]
    /\ resp1 = [f \in Flows |-> 0]
    /\ result = [f \in Flows |-> <<>>]
    /\ proCalls = [f \in Flows |-> 0]
    /\ forcedCalls = [f \in Flows |-> 0]
    /\ proOutcome = [f \in Flows |-> "none"]
    /\ forcedOutcome = [f \in Flows |-> "none"]
    /\ refreshedAt = [f \in Flows |-> 0]
    /\ peerFresh = [f \in Flows |-> FALSE]
    /\ racing = {}
    /\ accessLocked = [f \in Flows |-> TRUE]
    /\ lastOk = 0
    /\ heap = <<build_signer(0)>>
    /\ content = [f \in Flows |-> None]
    /\ forcedSigner = [f \in Flows |-> 0]
    /\ proFailed = FALSE

\* OciOpenAI.__init__ / AsyncOciOpenAI.__init__: the httpx client gets the
\* headers built from the compartment id (no conversation store).
Init ==
    /\ mode \in Modes
    /\ refresh_interval \in 0..MaxInterval
    /\ \E v \in Variants : BackendInit(v)
    /\ AuthInit
    /\ probe = NoProbe
    /\ \E c \in CompartmentIds : http_client_headers = build_headers(c, None)

\* ------------------------------------------------------------- actions

\* time.time() advances.
Tick ==
    /\ clock < MaxTime
    /\ clock' = clock + 1
    /\ UNCHANGED <<mode, running, refresh_interval, signer, last_refresh, lock, pc, sent,
                   resp1, result, probe, http_client_headers, variant, heap,
                   identity, config, content>>
    /\ UNCHANGED histVars

\* httpx enters auth_flow(request): the generator reaches the call of
\* _refresh_if_needed() and is about to execute "with self._lock". Requests
\* are numbered in the order in which their flows are entered.
auth_flow_begin(f) ==
    /\ pc[f] = "idle"
    /\ \A g \in Flows : g < f => pc[g] # "idle"
    /\ CanResume(f)
    /\ pc' = [pc EXCEPT ![f] = "rin_lock"]
    /\ running' = Enter(f)
    /\ racing' = IF should_refresh_token(last_refresh, clock, refresh_interval)
                 THEN racing \cup {{f, g} : g \in {h \in Flows :
                          pc[h] \in {"rin_lock", "rin_refresh"}}}
                 ELSE racing
    /\ UNCHANGED <<mode, clock, refresh_interval, signer, last_refresh, lock, sent, resp1,
                   result, probe, http_client_headers, variant, heap, identity, config, content>>
    /\ UNCHANGED <<proCalls, forcedCalls, proOutcome, forcedOutcome, refreshedAt,
                   peerFresh, accessLocked, lastOk, forcedSigner, proFailed>>

\* _refresh_if_needed, "with self._lock: if self._should_refresh_token()":
\* blocks until the lock is free, then checks staleness under the lock. Stale
\* enters _refresh_signer, Fresh leaves the with block.
refresh_if_needed_check(f) ==
    /\ pc[f] = "rin_lock"
    /\ CanRun(f)
    /\ lock = NoFlow
    /\ peerFresh' = [peerFresh EXCEPT ![f] = RacedWithFresh(f)]
    /\ IF should_refresh_token(last_refresh, clock, refresh_interval)
       THEN /\ pc' = [pc EXCEPT ![f] = "rin_refresh"]
            /\ proCalls' = [proCalls EXCEPT ![f] = @ + 1]
            /\ lock' = f
       ELSE /\ pc' = [pc EXCEPT ![f] = "sign1"]
            /\ proCalls' = proCalls
            /\ lock' = NoFlow
    /\ UNCHANGED <<mode, running, clock, refresh_interval, signer, last_refresh, sent,
                   resp1, result, probe, http_client_headers, variant, heap,
                   identity, config, content>>
    /\ UNCHANGED <<forcedCalls, proOutcome, forcedOutcome, refreshedAt, racing,
                   accessLocked, lastOk, forcedSigner, proFailed>>

\* Mutant: the timestamp is assigned in a finally clause, also when the
\* refresh raised.
refresh_if_needed_refresh_stamps(f) ==
    /\ pc[f] = "rin_refresh"
    /\ CanRun(f)
    /\ \E ok \in BOOLEAN :
         /\ signer' = IF ok THEN refresh_signer(heap, signer).signer ELSE signer
         /\ heap' = IF ok THEN refresh_signer(heap, signer).heap ELSE heap
         /\ last_refresh' = Some(clock)
         /\ proOutcome' = [proOutcome EXCEPT ![f] = IF ok THEN "ok" ELSE "fail"]
         /\ refreshedAt' = [refreshedAt EXCEPT ![f] = IF ok THEN clock ELSE @]
         /\ lastOk' = IF ok THEN clock ELSE lastOk
         /\ identity' = identity_refresh(identity, ok, refresh_signer(heap, signer).signer)
         /\ proFailed' = ~ok
         /\ \E failed \in RefreshFailures :
              config' = refresh_config(config, ok, failed, refresh_signer(heap, signer).signer)
    /\ accessLocked' = [accessLocked EXCEPT ![f] = @ /\ lock = f]
    /\ lock' = NoFlow
    /\ pc' = [pc EXCEPT ![f] = "sign1"]
    /\ UNCHANGED <<mode, running, clock, refresh_interval, sent, resp1, result, probe,
                   http_client_headers, variant, content>>
    /\ UNCHANGED <<proCalls, forcedCalls, forcedOutcome, peerFresh, racing, forcedSigner>>

\* Mutant: no try/except around _refresh_signer(): the exception leaves
\* _refresh_if_needed and ends the flow.
refresh_if_needed_refresh_raises(f) ==
    /\ pc[f] = "rin_refresh"
    /\ CanRun(f)
    /\ \E ok \in BOOLEAN :
         /\ IF ok
            THEN /\ signer' = refresh_signer(heap, signer).signer
                 /\ heap' = refresh_signer(heap, signer).heap
                 /\ last_refresh' = Some(clock)
                 /\ lastOk' = clock
                 /\ proOutcome' = [proOutcome EXCEPT ![f] = "ok"]
                 /\ refreshedAt' = [refreshedAt EXCEPT ![f] = clock]
                 /\ pc' = [pc EXCEPT ![f] = "sign1"]
                 /\ running' = running
            ELSE /\ UNCHANGED <<authVars, heap, lastOk>>
                 /\ proOutcome' = [proOutcome EXCEPT ![f] = "fail"]
                 /\ refreshedAt' = refreshedAt
                 /\ pc' = [pc EXCEPT ![f] = "raised"]
                 /\ running' = NoFlow
         /\ identity' = identity_refresh(identity, ok, refresh_signer(heap, signer).signer)
         /\ proFailed' = ~ok
         /\ \E failed \in RefreshFailures :
              config' = refresh_config(config, ok, failed, refresh_signer(heap, signer).signer)
    /\ accessLocked' = [accessLocked EXCEPT ![f] = @ /\ lock = f]
    /\ lock' = NoFlow
    /\ UNCHANGED <<mode, clock, refresh_interval, sent, resp1, result, probe,
                   http_client_headers, variant, content>>
    /\ UNCHANGED <<proCalls, forcedCalls, forcedOutcome, peerFresh, racing, forcedSigner>>

\* _refresh_if_needed, the try block: _refresh_signer() returns (new signer
\* installed, then _last_refresh = time.time()) or raises (logged, nothing
\* assigned); the with block then releases the lock and the method returns.
refresh_if_needed_refresh(f) ==
    /\ pc[f] = "rin_refresh"
    /\ CanRun(f)
    /\ \E ok \in BOOLEAN :
         /\ IF ok
            THEN /\ signer' = refresh_signer(heap, signer).signer
                 /\ heap' = refresh_signer(heap, signer).heap
                 /\ last_refresh' = Some(clock)
                 /\ lastOk' = clock
                 /\ proOutcome' = [proOutcome EXCEPT ![f] = "ok"]
                 /\ refreshedAt' = [refreshedAt EXCEPT ![f] = clock]
            ELSE /\ UNCHANGED <<authVars, heap, lastOk>>
                 /\ proOutcome' = [proOutcome EXCEPT ![f] = "fail"]
                 /\ refreshedAt' = refreshedAt
         /\ identity' = identity_refresh(identity, ok, refresh_signer(heap, signer).signer)
         /\ proFailed' = ~ok
         /\ \E failed \in RefreshFailures :
              config' = refresh_config(config, ok, failed, refresh_signer(heap, signer).signer)
    /\ accessLocked' = [accessLocked EXCEPT ![f] = @ /\ lock = f]
    /\ lock' = NoFlow
    /\ pc' = [pc EXCEPT ![f] = "sign1"]
    /\ UNCHANGED <<mode, running, clock, refresh_interval, sent, resp1, result, probe,
                   http_client_headers, variant, content>>
    /\ UNCHANGED <<proCalls, forcedCalls, forcedOutcome, peerFresh, racing, forcedSigner>>

\* auth_flow: body captured, request prepared, self.signer read and the
\* request signed, headers merged, "response = yield request". A signer that
\* raises ends the generator with the exception.
auth_flow_sign(f) ==
    /\ pc[f] = "sign1"
    /\ CanRun(f)
    /\ content' = [content EXCEPT ![f] = Some(httpx_request(f).body)]
    /\ \E ok \in BOOLEAN :
         IF ok
         THEN /\ sent' = [sent EXCEPT ![f] =
                         Append(@, do_request_sign(heap[signer + 1],
                                                   prepare(f, content'[f][1])))]
              /\ pc' = [pc EXCEPT ![f] = "fwd1"]
         ELSE /\ sent' = sent
              /\ pc' = [pc EXCEPT ![f] = "raised"]
    /\ accessLocked' = [accessLocked EXCEPT ![f] = @ /\ lock = f]
    /\ running' = NoFlow
    /\ UNCHANGED <<mode, clock, refresh_interval, signer, last_refresh, lock, resp1,
                   result, probe, http_client_headers, variant, heap, identity, config>>
    /\ UNCHANGED <<proCalls, forcedCalls, proOutcome, forcedOutcome, refreshedAt,
                   peerFresh, racing, lastOk, forcedSigner, proFailed>>

\* Mutant: every status from 401 upwards is handled as a 401.
auth_flow_response_retries_errors(f) ==
    /\ pc[f] = "fwd1"
    /\ CanResume(f)
    /\ \E s \in Statuses :
         /\ resp1' = [resp1 EXCEPT ![f] = s]
         /\ IF s >= 401
            THEN /\ pc' = [pc EXCEPT ![f] = "r401_lock"]
                 /\ running' = Enter(f)
                 /\ result' = result
            ELSE /\ pc' = [pc EXCEPT ![f] = "done"]
                 /\ running' = running
                 /\ result' = [result EXCEPT ![f] = <<1, s>>]
    /\ UNCHANGED <<mode, clock, refresh_interval, signer, last_refresh, lock, sent, probe,
                   http_client_headers, variant, heap, identity, config, content>>
    /\ UNCHANGED histVars

\* httpx sends the response of the first attempt into the generator:
\* "if response.status_code == 401" either falls off the end (the caller
\* receives this response) or goes on to "with self._lock".
auth_flow_response(f) ==
    /\ pc[f] = "fwd1"
    /\ CanResume(f)
    /\ \E s \in Statuses :
         /\ resp1' = [resp1 EXCEPT ![f] = s]
         /\ IF s = 401
            THEN /\ pc' = [pc EXCEPT ![f] = "r401_lock"]
                 /\ running' = Enter(f)
                 /\ result' = result
            ELSE /\ pc' = [pc EXCEPT ![f] = "done"]
                 /\ running' = running
                 /\ result' = [result EXCEPT ![f] = <<1, s>>]
    /\ UNCHANGED <<mode, clock, refresh_interval, signer, last_refresh, lock, sent, probe,
                   http_client_headers, variant, heap, identity, config, content>>
    /\ UNCHANGED histVars

\* Mutant: the 401 branch calls _refresh_signer() without taking the lock.
auth_flow_retry_acquire_unlocked(f) ==
    /\ pc[f] = "r401_lock"
    /\ CanRun(f)
    /\ lock' = f
    /\ pc' = [pc EXCEPT ![f] = "r401_refresh"]
    /\ forcedCalls' = [forcedCalls EXCEPT ![f] = @ + 1]
    /\ UNCHANGED <<mode, running, clock, refresh_interval, signer, last_refresh, sent,
                   resp1, result, probe, http_client_headers, variant, heap,
                   identity, config, content>>
    /\ UNCHANGED <<proCalls, proOutcome, forcedOutcome, refreshedAt, peerFresh,
                   racing, accessLocked, lastOk, forcedSigner, proFailed>>

\* auth_flow, 401 branch, "with self._lock": blocks until the lock is free,
\* then enters the try block and calls _refresh_signer().
auth_flow_retry_acquire(f) ==
    /\ pc[f] = "r401_lock"
    /\ CanRun(f)
    /\ lock = NoFlow
    /\ lock' = f
    /\ pc' = [pc EXCEPT ![f] = "r401_refresh"]
    /\ forcedCalls' = [forcedCalls EXCEPT ![f] = @ + 1]
    /\ UNCHANGED <<mode, running, clock, refresh_interval, signer, last_refresh, sent,
                   resp1, result, probe, http_client_headers, variant, heap,
                   identity, config, content>>
    /\ UNCHANGED <<proCalls, proOutcome, forcedOutcome, refreshedAt, peerFresh,
                   racing, accessLocked, lastOk, forcedSigner, proFailed>>

\* Mutant: a failed forced refresh is ignored and the retry is forwarded
\* anyway, signed with the old signer.
auth_flow_retry_refresh_retries(f) ==
    /\ pc[f] = "r401_refresh"
    /\ CanRun(f)
    /\ \E rok \in BOOLEAN :
         /\ signer' = IF rok THEN refresh_signer(heap, signer).signer ELSE signer
         /\ heap' = IF rok THEN refresh_signer(heap, signer).heap ELSE heap
         /\ last_refresh' = IF rok THEN Some(clock) ELSE last_refresh
         /\ lastOk' = IF rok THEN clock ELSE lastOk
         /\ forcedSigner' = [forcedSigner EXCEPT ![f] = IF rok THEN signer' ELSE @]
         /\ forcedOutcome' = [forcedOutcome EXCEPT ![f] = IF rok THEN "refreshed" ELSE "fail"]
         /\ identity' = identity_refresh(identity, rok, refresh_signer(heap, signer).signer)
         /\ proFailed' = (proFailed /\ ~rok)
         /\ \E failed \in RefreshFailures :
              config' = refresh_config(config, rok, failed, refresh_signer(heap, signer).signer)
    /\ pc' = [pc EXCEPT ![f] = "r401_sign"]
    /\ accessLocked' = [accessLocked EXCEPT ![f] = @ /\ lock = f]
    /\ UNCHANGED <<mode, running, clock, refresh_interval, lock, sent, resp1, result, probe,
                   http_client_headers, variant, content>>
    /\ UNCHANGED <<proCalls, forcedCalls, proOutcome, refreshedAt, peerFresh, racing>>

\* Mutant: the with block ends after the refresh; the retry is signed
\* outside the lock.
auth_flow_retry_refresh_unlocks(f) ==
    /\ pc[f] = "r401_refresh"
    /\ CanRun(f)
    /\ \E rok \in BOOLEAN :
         /\ IF rok
            THEN /\ signer' = refresh_signer(heap, signer).signer
                 /\ heap' = refresh_signer(heap, signer).heap
                 /\ last_refresh' = Some(clock)
                 /\ lastOk' = clock
                 /\ forcedSigner' = [forcedSigner EXCEPT ![f] = signer']
                 /\ pc' = [pc EXCEPT ![f] = "r401_sign"]
                 /\ lock' = NoFlow
                 /\ running' = running
                 /\ result' = result
                 /\ forcedOutcome' = [forcedOutcome EXCEPT ![f] = "refreshed"]
            ELSE /\ UNCHANGED <<authVars, heap, lastOk, forcedSigner>>
                 /\ pc' = [pc EXCEPT ![f] = "done"]
                 /\ lock' = NoFlow
                 /\ running' = NoFlow
                 /\ result' = [result EXCEPT ![f] = <<1, resp1[f]>>]
                 /\ forcedOutcome' = [forcedOutcome EXCEPT ![f] = "fail"]
         /\ identity' = identity_refresh(identity, rok, refresh_signer(heap, signer).signer)
         /\ proFailed' = (proFailed /\ ~rok)
         /\ \E failed \in RefreshFailures :
              config' = refresh_config(config, rok, failed, refresh_signer(heap, signer).signer)
    /\ accessLocked' = [accessLocked EXCEPT ![f] = @ /\ lock = f]
    /\ UNCHANGED <<mode, clock, refresh_interval, sent, resp1, probe, http_client_headers,
                   variant, content>>
    /\ UNCHANGED <<proCalls, forcedCalls, proOutcome, refreshedAt, peerFresh, racing>>

\* auth_flow, 401 branch, the try block, first half: _refresh_signer() and
\* _last_refresh = time.time(), under the lock. An exception from the refresh
\* is logged; the with block releases the lock and the generator ends, so
\* the caller receives the first response.
auth_flow_retry_refresh(f) ==
    /\ pc[f] = "r401_refresh"
    /\ CanRun(f)
    /\ \E rok \in BOOLEAN :
         /\ IF rok
            THEN /\ signer' = refresh_signer(heap, signer).signer
                 /\ heap' = refresh_signer(heap, signer).heap
                 /\ last_refresh' = Some(clock)
                 /\ lastOk' = clock
                 /\ forcedSigner' = [forcedSigner EXCEPT ![f] = signer']
                 /\ pc' = [pc EXCEPT ![f] = "r401_sign"]
                 /\ lock' = lock
                 /\ running' = running
                 /\ result' = result
                 /\ forcedOutcome' = [forcedOutcome EXCEPT ![f] = "refreshed"]
            ELSE /\ UNCHANGED <<authVars, heap, lastOk, forcedSigner>>
                 /\ pc' = [pc EXCEPT ![f] = "done"]
                 /\ lock' = NoFlow
                 /\ running' = NoFlow
                 /\ result' = [result EXCEPT ![f] = <<1, resp1[f]>>]
                 /\ forcedOutcome' = [forcedOutcome EXCEPT ![f] = "fail"]
         /\ identity' = identity_refresh(identity, rok, refresh_signer(heap, signer).signer)
         /\ proFailed' = (proFailed /\ ~rok)
         /\ \E failed \in RefreshFailures :
              config' = refresh_config(config, rok, failed, refresh_signer(heap, signer).signer)
    /\ accessLocked' = [accessLocked EXCEPT ![f] = @ /\ lock = f]
    /\ UNCHANGED <<mode, clock, refresh_interval, sent, resp1, probe, http_client_headers,
                   variant, content>>
    /\ UNCHANGED <<proCalls, forcedCalls, proOutcome, refreshedAt, peerFresh, racing>>

\* auth_flow, 401 branch, the try block, second half: the request is
\* prepared from the captured body, self.signer is read and signs it, the
\* headers are merged, "yield request" -- the yield is inside the with
\* block, so the generator is suspended holding the lock. An exception from
\* signing is logged, the lock released and the generator ends.
auth_flow_retry_sign(f) ==
    /\ pc[f] = "r401_sign"
    /\ CanRun(f)
    /\ \E sok \in BOOLEAN :
         IF sok
         THEN /\ sent' = [sent EXCEPT ![f] =
                         Append(@, do_request_sign(heap[signer + 1],
                                                   prepare(f, content[f][1])))]
              /\ pc' = [pc EXCEPT ![f] = "fwd2"]
              /\ lock' = lock
              /\ result' = result
              /\ forcedOutcome' = [forcedOutcome EXCEPT ![f] = "ok"]
         ELSE /\ sent' = sent
              /\ pc' = [pc EXCEPT ![f] = "done"]
              /\ lock' = IF lock = f THEN NoFlow ELSE lock
              /\ result' = [result EXCEPT ![f] = <<1, resp1[f]>>]
              /\ forcedOutcome' = [forcedOutcome EXCEPT ![f] = "signfail"]
    /\ accessLocked' = [accessLocked EXCEPT ![f] = @ /\ lock = f]
    /\ running' = NoFlow
    /\ UNCHANGED <<mode, clock, refresh_interval, signer, last_refresh, resp1, probe,
                   http_client_headers, variant, heap, identity, config, content>>
    /\ UNCHANGED <<proCalls, forcedCalls, proOutcome, refreshedAt, peerFresh, racing,
                   lastOk, forcedSigner, proFailed>>

\* Mutant: the 401 handling is a loop: a 401 on the retry refreshes and
\* retries again.
auth_flow_retry_response_loops(f) ==
    /\ pc[f] = "fwd2"
    /\ CanResume(f)
    /\ \E s \in Statuses :
         IF s = 401
         THEN /\ pc' = [pc EXCEPT ![f] = "r401_lock"]
              /\ running' = Enter(f)
              /\ result' = result
         ELSE /\ pc' = [pc EXCEPT ![f] = "done"]
              /\ running' = running
              /\ result' = [result EXCEPT ![f] = <<2, s>>]
    /\ lock' = IF lock = f THEN NoFlow ELSE lock
    /\ UNCHANGED <<mode, clock, refresh_interval, signer, last_refresh, sent, resp1, probe,
                   http_client_headers, variant, heap, identity, config, content>>
    /\ UNCHANGED histVars

\* httpx sends the response of the retry into the generator: the yield
\* returns, the with block releases the lock, the generator ends and the
\* caller receives the retry's response.
auth_flow_retry_response(f) ==
    /\ pc[f] = "fwd2"
    /\ CanResume(f)
    /\ \E s \in Statuses :
         result' = [result EXCEPT ![f] = <<2, s>>]
    /\ pc' = [pc EXCEPT ![f] = "done"]
    /\ lock' = IF lock = f THEN NoFlow ELSE lock
    /\ UNCHANGED <<mode, running, clock, refresh_interval, signer, last_refresh, sent,
                   resp1, probe, http_client_headers, variant, heap, identity, config, content>>
    /\ UNCHANGED histVars

\* Mutant: the lock is taken with acquire() and released after the yield
\* returns, without with or finally; closing the generator skips the release.
auth_flow_close_keeps_lock(f) ==
    /\ pc[f] \in {"fwd1", "fwd2"}
    /\ CanResume(f)
    /\ pc' = [pc EXCEPT ![f] = "closed"]
    /\ lock' = lock
    /\ UNCHANGED <<mode, running, clock, refresh_interval, signer, last_refresh, sent,
                   resp1, result, probe, http_client_headers, variant, heap,
                   identity, config, content>>
    /\ UNCHANGED histVars

\* A transport error on a forwarded request: httpx closes the generator at
\* the yield where it is suspended (GeneratorExit is no Exception, so the
\* except clause does not catch it; the with block releases the lock).
auth_flow_close(f) ==
    /\ pc[f] \in {"fwd1", "fwd2"}
    /\ CanResume(f)
    /\ pc' = [pc EXCEPT ![f] = "closed"]
    /\ lock' = IF lock = f THEN NoFlow ELSE lock
    /\ UNCHANGED <<mode, running, clock, refresh_interval, signer, last_refresh, sent,
                   resp1, result, probe, http_client_headers, variant, heap,
                   identity, config, content>>
    /\ UNCHANGED histVars

FlowNext(f) ==
    \/ auth_flow_begin(f)
    \/ refresh_if_needed_check(f)
    \/ refresh_if_needed_refresh(f)
    \/ auth_flow_sign(f)
    \/ auth_flow_response(f)
    \/ auth_flow_retry_acquire(f)
    \/ auth_flow_retry_refresh(f)
    \/ auth_flow_retry_sign(f)
    \/ auth_flow_retry_response(f)
    \/ auth_flow_close(f)

Next ==
    \/ Tick
    \/ \E f \in Flows : FlowNext(f)

Spec == Init /\ [][Next]_vars

\* ---------------------------------------------- _should_refresh_token alone

ProbeTimes == {None} \cup {Some(t) : t \in 0..MaxProbe}

\* One evaluation of _should_refresh_token on an authenticator whose
\* _last_refresh, clock and refresh_interval are set directly, as the unit
\* tests do.
InitStale ==
    /\ mode = "threads"
    /\ refresh_interval = 1
    /\ BackendInit("session")
    /\ AuthInit
    /\ http_client_headers = build_headers(None, None)
    /\ probe \in [phase : {"input"}, last : ProbeTimes, now : 0..MaxProbe,
                   interval : 0..MaxProbe, out : {FALSE}]

probe_should_refresh_token ==
    /\ probe.phase = "input"
    /\ probe' = [probe EXCEPT !.phase = "output",
                               !.out = should_refresh_token(probe.last, probe.now,
                                                            probe.interval)]
    /\ UNCHANGED <<mode, running, clock, refresh_interval, signer, last_refresh, lock, pc,
                   sent, resp1, result, http_client_headers, variant, heap,
                   identity, config, content>>
    /\ UNCHANGED histVars

NextStale == probe_should_refresh_token

SpecStale == InitStale /\ [][NextStale]_vars

\* ------------------------------------------- endpoint resolution alone

\* Characters that can trail an endpoint, each a token of its own.
SLASH == "/"
SPACE == " "
TAB == "\t"
\* The word tested by '"generativeai" in base_url', a token of its own.
GENERATIVEAI == "generativeai"
\* "/openai/v1", the suffix of _build_base_url.
INFERENCE_PATH == <<SLASH, "openai", SLASH, "v1">>

\* str.rstrip(chars): the longest suffix made of characters of chars is removed.
RECURSIVE rstrip(_, _)
rstrip(str, chars) ==
    IF str # EmptyStr /\ str[Len(str)] \in chars
    THEN rstrip(SubSeq(str, 1, Len(str) - 1), chars)
    ELSE str

\* "word in str" for a word that is a token of its own.
Contains(str, word) == \E i \in 1..Len(str) : str[i] = word

\* _build_service_endpoint
build_service_endpoint(region) ==
    <<"https://inference.", GENERATIVEAI, ".">> \o region \o <<".oci.oraclecloud.com">>

\* Mutant: the suffix is appended only to an endpoint whose host names the
\* generative-AI service and that has no path; any other endpoint is returned
\* stripped.
build_base_url_by_host(service_endpoint) ==
    LET url == rstrip(service_endpoint, {SPACE, SLASH})
    IN  IF Contains(url, GENERATIVEAI) /\ ~Contains(url, SLASH)
        THEN url \o INFERENCE_PATH
        ELSE url

\* Mutant: the endpoint is not stripped before the suffix is appended.
build_base_url_unstripped(service_endpoint) == service_endpoint \o INFERENCE_PATH

\* _build_base_url
build_base_url(service_endpoint) ==
    LET url == rstrip(service_endpoint, {SPACE, SLASH})
    IN  url \o INFERENCE_PATH

\* Mutant: a service endpoint takes precedence over an explicit base URL.
resolve_base_url_endpoint_first(region, service_endpoint, base_url) ==
    IF ~Truthy(base_url) /\ ~Truthy(service_endpoint) /\ ~Truthy(region)
    THEN [raised |-> TRUE, value |-> EmptyStr]
    ELSE [raised |-> FALSE,
          value |-> IF Truthy(service_endpoint) THEN build_base_url(service_endpoint[1])
                    ELSE IF Truthy(base_url) THEN base_url[1]
                    ELSE build_base_url(build_service_endpoint(region[1]))]

\* Mutant: a region is demanded whenever no base URL is given.
resolve_base_url_needs_region(region, service_endpoint, base_url) ==
    IF ~Truthy(base_url) /\ ~Truthy(region)
    THEN [raised |-> TRUE, value |-> EmptyStr]
    ELSE [raised |-> FALSE,
          value |-> IF Truthy(base_url) THEN base_url[1]
                    ELSE build_base_url(IF Truthy(service_endpoint)
                                        THEN service_endpoint[1]
                                        ELSE build_service_endpoint(region[1]))]

\* _resolve_base_url: ValueError when none of the three is truthy, else
\* base_url if truthy, else the URL built from service_endpoint if truthy,
\* else from the region.
resolve_base_url(region, service_endpoint, base_url) ==
    IF ~Truthy(base_url) /\ ~Truthy(service_endpoint) /\ ~Truthy(region)
    THEN [raised |-> TRUE, value |-> EmptyStr]
    ELSE [raised |-> FALSE,
          value |-> IF Truthy(base_url) THEN base_url[1]
                    ELSE build_base_url(IF Truthy(service_endpoint)
                                        THEN service_endpoint[1]
                                        ELSE build_service_endpoint(region[1]))]

NoClient == [raised |-> TRUE, base_url |-> EmptyStr, headers |-> <<>>]

\* Mutant: only a compartment id that is None is rejected.
client_init_none_only(region, service_endpoint, base_url, compartment_id, store_id) ==
    LET r == resolve_base_url(region, service_endpoint, base_url)
    IN  IF r.raised THEN NoClient
        ELSE IF Contains(r.value, GENERATIVEAI) /\ compartment_id = None THEN NoClient
        ELSE [raised |-> FALSE, base_url |-> r.value,
              headers |-> build_headers(compartment_id, store_id)]

\* OciOpenAI.__init__ / AsyncOciOpenAI.__init__: resolve the base URL, raise
\* ValueError when it holds "generativeai" and compartment_id is falsy, else
\* build the default headers and the client.
client_init(region, service_endpoint, base_url, compartment_id, store_id) ==
    LET r == resolve_base_url(region, service_endpoint, base_url)
    IN  IF r.raised THEN NoClient
        ELSE IF Contains(r.value, GENERATIVEAI) /\ ~Truthy(compartment_id) THEN NoClient
        ELSE [raised |-> FALSE, base_url |-> r.value,
              headers |-> build_headers(compartment_id, store_id)]

\* Inputs of the resolution.
MaxTrail == 2
RegionName == <<"us-chicago-1">>
GenAiEndpoint == <<"https://", GENERATIVEAI, ".fake-oci-endpoint.com">>
GenAiFullUrl == GenAiEndpoint \o INFERENCE_PATH
ModelDeploymentEndpoint ==
    <<"https://modeldeployment.us-chicago-1.oci.customer-oci.com", SLASH,
      "ocid1.datasciencemodeldeployment.oc1..a", SLASH, "predict">>
DataScienceUrl ==
    <<"https://datascience.us-phoenix-1.oci.oraclecloud.com", SLASH, "20190101", SLASH,
      "actions", SLASH, "invokeEndpoint">>

\* Runs of at most MaxTrail trailing characters drawn from chars.
Trailers(chars) == UNION {[1..n -> chars] : n \in 0..MaxTrail}

Regions == {None, Some(EmptyStr), Some(RegionName)}
ServiceEndpoints ==
    {None, Some(EmptyStr)} \cup
    {Some(e \o t) : e \in {GenAiEndpoint, GenAiFullUrl, ModelDeploymentEndpoint},
                    t \in Trailers({SLASH, SPACE, TAB})}
BaseUrls == {None, Some(EmptyStr), Some(DataScienceUrl), Some(GenAiFullUrl)}
ClientCompartmentIds == CompartmentIds \cup {Some(EmptyStr)}
ConversationStoreIds == {None, Some(EmptyStr), Some(<<"ocid1.conversationstore.oc1..a">>)}

\* One call of _resolve_base_url, or one construction of a client, on
\* arguments chosen freely; the authenticator is not used.
InitClient ==
    /\ mode = "threads"
    /\ refresh_interval = 1
    /\ BackendInit("session")
    /\ AuthInit
    /\ http_client_headers = build_headers(None, None)
    /\ probe \in [phase : {"args"}, region : Regions, service_endpoint : ServiceEndpoints,
                   base_url : BaseUrls, compartment_id : ClientCompartmentIds,
                   conversation_store_id : ConversationStoreIds, out : {NoClient}]

probe_resolve_base_url ==
    /\ probe.phase = "args"
    /\ probe' = [probe EXCEPT !.phase = "resolved",
                               !.out = resolve_base_url(probe.region, probe.service_endpoint,
                                                        probe.base_url)]
    /\ UNCHANGED <<mode, running, clock, refresh_interval, signer, last_refresh, lock, pc,
                   sent, resp1, result, http_client_headers, variant, heap,
                   identity, config, content>>
    /\ UNCHANGED histVars

probe_client_init ==
    /\ probe.phase = "args"
    /\ probe' = [probe EXCEPT !.phase = "constructed",
                               !.out = client_init(probe.region, probe.service_endpoint,
                                                   probe.base_url, probe.compartment_id,
                                                   probe.conversation_store_id)]
    /\ UNCHANGED <<mode, running, clock, refresh_interval, signer, last_refresh, lock, pc,
                   sent, resp1, result, http_client_headers, variant, heap,
                   identity, config, content>>
    /\ UNCHANGED histVars

\* One call of _build_headers, as the unit tests make it.
probe_build_headers ==
    /\ probe.phase = "args"
    /\ probe' = [probe EXCEPT !.phase = "headers",
                               !.out = build_headers(probe.compartment_id,
                                                     probe.conversation_store_id)]
    /\ UNCHANGED <<mode, running, clock, refresh_interval, signer, last_refresh, lock, pc,
                   sent, resp1, result, http_client_headers, variant, heap,
                   identity, config, content>>
    /\ UNCHANGED histVars

NextClient == probe_resolve_base_url \/ probe_client_init \/ probe_build_headers

SpecClient == InitClient /\ [][NextClient]_vars

\* ------------------------------------------ OciSessionAuth construction

\* An OCI config profile as OciSessionAuth reads it: the two entries are
\* absent (None), empty, or a path; a path names a file that exists or not.
FilePath == <<"~/.oci/sessions/oc1/file">>
ProfileEntries == {None, Some(EmptyStr), Some(FilePath)}
Profiles ==
    [security_token_file : ProfileEntries, key_file : ProfileEntries,
     token_file_exists : BOOLEAN, key_file_exists : BOOLEAN]

NoAuth(error) == [raised |-> TRUE, error |-> error, auth |-> None]

\* Mutant: the constructor only records the profile; token and key are
\* loaded by the first refresh.
session_init_lazy(profile, interval) ==
    [raised |-> FALSE, error |-> "",
     auth |-> Some([signer |-> None, refresh_interval |-> interval])]

\* OciSessionAuth.__init__: _load_token (config["security_token_file"], then
\* open), the key_file test, _load_private_key, then the signer and
\* HttpxOciAuth.__init__; every failure is an exception raised by __init__.
session_init(profile, interval) ==
    IF profile.security_token_file = None THEN NoAuth("KeyError")
    ELSE IF ~Truthy(profile.security_token_file) \/ ~profile.token_file_exists
    THEN NoAuth("FileNotFoundError")
    ELSE IF ~Truthy(profile.key_file) THEN NoAuth("KeyError")
    ELSE IF ~profile.key_file_exists THEN NoAuth("FileNotFoundError")
    ELSE [raised |-> FALSE, error |-> "",
          auth |-> Some([signer |-> Some(build_signer(0)), refresh_interval |-> interval])]

\* One construction of OciSessionAuth from a profile chosen freely.
InitSession ==
    /\ mode = "threads"
    /\ refresh_interval = 1
    /\ BackendInit("session")
    /\ AuthInit
    /\ http_client_headers = build_headers(None, None)
    /\ probe \in [phase : {"profile"}, profile : Profiles, interval : 0..MaxProbe,
                   out : {NoAuth("")}]

probe_session_init ==
    /\ probe.phase = "profile"
    /\ probe' = [probe EXCEPT !.phase = "session",
                               !.out = session_init(probe.profile, probe.interval)]
    /\ UNCHANGED <<mode, running, clock, refresh_interval, signer, last_refresh, lock, pc,
                   sent, resp1, result, http_client_headers, variant, heap,
                   identity, config, content>>
    /\ UNCHANGED histVars

NextSession == probe_session_init

SpecSession == InitSession /\ [][NextSession]_vars

\* ------------------------------------------------------------------ claims

Refreshing == {f \in Flows : pc[f] \in {"rin_refresh", "r401_refresh"}}
PastRefreshIfNeeded(f) == pc[f] \notin {"idle", "rin_lock", "rin_refresh"}

\* C1, as stated: a request whose first attempt is answered 401 causes
\* exactly one forced refresh and exactly one retry, and the caller receives
\* the retry's response.
C1_AlwaysOneRetry ==
    \A f \in Flows :
        (pc[f] = "done" /\ resp1[f] = 401) =>
            /\ forcedCalls[f] = 1
            /\ Len(sent[f]) = 2
            /\ result[f][1] = 2

\* C1, amended: a 401 on the first attempt causes exactly one forced refresh;
\* exactly one retry is forwarded when that refresh and the re-signing return
\* without raising, and then the caller receives the retry's response
\* whatever its status; when either raises no retry is forwarded and the
\* caller receives the first 401. No request is forwarded more than twice or
\* force-refreshed more than once.
C1_RetryBoundedAtOne ==
    \A f \in Flows :
        /\ Len(sent[f]) <= 2
        /\ forcedCalls[f] <= 1
        /\ (pc[f] = "done" /\ resp1[f] = 401) =>
              /\ forcedCalls[f] = 1
              /\ IF forcedOutcome[f] = "ok"
                 THEN Len(sent[f]) = 2 /\ result[f][1] = 2
                 ELSE Len(sent[f]) = 1 /\ result[f] = <<1, 401>>

\* C1 witness: a flow ended after a retry that was itself answered 401.
C1_Witness ==
    \E f \in Flows :
        /\ pc[f] = "done"
        /\ resp1[f] = 401
        /\ forcedOutcome[f] = "ok"
        /\ result[f] = <<2, 401>>

\* C2: no flow waits for the refresh lock while the flow holding it can never
\* run again (every started flow can still finish).
C2_NoFlowWaitsForever ==
    \A f \in Flows :
        (pc[f] \in {"rin_lock", "r401_lock"} /\ CanRun(f) /\ lock # NoFlow) =>
            ENABLED FlowNext(lock)

\* C3: no flow holds the lock while one of its requests is being forwarded.
C3_NoLockWhileForwarding ==
    \A f \in Flows : pc[f] \in {"fwd1", "fwd2"} => lock # f

\* C4, as stated: two requests that were inside _refresh_if_needed together
\* while the policy was Stale make exactly one proactive refresh call between
\* them.
C4_ExactlyOneRefresh ==
    \A f \in Flows, g \in Flows :
        ({f, g} \in racing /\ f # g /\ PastRefreshIfNeeded(f) /\ PastRefreshIfNeeded(g)) =>
            proCalls[f] + proCalls[g] = 1

\* C4, amended: of two requests that raced while Stale, the one that checks
\* staleness under the lock less than refresh_interval after the other's
\* refresh returned without raising finds the policy Fresh and makes no
\* call, so the two make exactly one call; when the first call raises the
\* policy stays Stale and the second request calls the refresh procedure too.
C4_NoDuplicateRefresh ==
    \A f \in Flows :
        peerFresh[f] =>
            /\ proCalls[f] = 0
            /\ \E g \in Flows \ {f} :
                  {f, g} \in racing /\ proCalls[g] = 1 /\ proOutcome[g] = "ok"

\* C4 witness: a flow that raced with a successful refresher found the policy
\* Fresh and went on to forward its request.
C4_Witness ==
    \E f \in Flows : peerFresh[f] /\ pc[f] = "fwd1" /\ proCalls[f] = 0

\* C5: at most one execution of _refresh_signer is in progress at any time,
\* whichever of the two refresh paths started it.
C5_OneRefreshAtATime == Cardinality(Refreshing) <= 1

\* C5 witness: a forced refresh is in progress while another flow waits at
\* the lock of _refresh_if_needed.
C5_Witness ==
    \E f \in Flows, g \in Flows :
        pc[f] = "r401_refresh" /\ pc[g] = "rin_lock" /\ CanRun(g)

\* C6: every access of a flow to (signer, _last_refresh) is made while that
\* flow holds the lock.
C6_AccessOnlyUnderLock == \A f \in Flows : accessLocked[f]

\* C7: while a call of _refresh_signer made by _refresh_if_needed is in
\* progress the pair (signer, _last_refresh) changes only by that call
\* returning; when it raises the pair is unchanged, the lock is released and
\* the flow continues after _refresh_if_needed (no exception leaves it).
C7_FailedRefreshLeavesState ==
    [][\A f \in Flows :
         pc[f] = "rin_refresh" =>
            /\ authVars' # authVars => proOutcome'[f] = "ok"
            /\ proOutcome'[f] = "fail" =>
                  /\ authVars' = authVars
                  /\ lock' = NoFlow
                  /\ pc'[f] = "sign1"]_vars

\* C7 witness: a flow whose proactive refresh raised has left
\* _refresh_if_needed and the lock is free.
C7_Witness ==
    \E f \in Flows : proOutcome[f] = "fail" /\ pc[f] = "sign1" /\ lock = NoFlow

\* C8: the step in which the proactive refresh fails takes the flow to the
\* signing step, and the signing step of such a flow forwards the request
\* signed with the signer that is current then (unless signing itself raises).
C8_FailedRefreshStillSends ==
    [][\A f \in Flows :
         /\ (proOutcome[f] # "fail" /\ proOutcome'[f] = "fail") => pc'[f] = "sign1"
         /\ (proOutcome[f] = "fail" /\ pc[f] = "sign1" /\ pc'[f] \notin {"sign1", "raised"}) =>
               /\ pc'[f] = "fwd1"
               /\ sent'[f] = <<do_request_sign(heap[signer + 1],
                                                prepare(f, httpx_request(f).body))>>]_vars

\* C8 witness: a flow whose proactive refresh raised has forwarded its
\* request, signed with the signer built at construction.
C8_Witness ==
    \E f \in Flows :
        /\ proOutcome[f] = "fail"
        /\ pc[f] = "fwd1"
        /\ sent[f] = <<do_request_sign(build_signer(0), prepare(f, httpx_request(f).body))>>

\* C9: the step in which the forced refresh raises forwards nothing, ends
\* the flow normally with the first 401 as the caller's response, releases
\* the lock and leaves (signer, _last_refresh) unchanged.
C9_FailedForcedRefresh ==
    [][\A f \in Flows :
         (forcedOutcome[f] # "fail" /\ forcedOutcome'[f] = "fail") =>
            /\ authVars' = authVars
            /\ sent'[f] = sent[f]
            /\ Len(sent[f]) = 1
            /\ pc'[f] = "done"
            /\ result'[f] = <<1, 401>>
            /\ lock' = NoFlow]_vars

\* C9 witness: a flow ended after its forced refresh raised.
C9_Witness ==
    \E f \in Flows : forcedOutcome[f] = "fail" /\ pc[f] = "done" /\ Len(sent[f]) = 1

C11_FirstRequestRefreshes ==
    \A f \in Flows :
        (PastRefreshIfNeeded(f) /\ \A g \in Flows \ {f} : pc[g] = "idle") =>
            proCalls[f] = 1

\* C11, amended: a newly constructed authenticator has _last_refresh set to
\* its construction time; until a refresh has returned, a staleness check
\* made under the lock calls the refresh procedure exactly when at least
\* refresh_interval has elapsed since construction.
C11_FirstCheckByElapsedTime ==
    [][\A f \in Flows :
         (pc[f] = "rin_lock" /\ pc'[f] # "rin_lock" /\ lastOk = 0) =>
            /\ last_refresh = Some(StartTime)
            /\ pc'[f] = "rin_refresh" <=> clock - StartTime >= refresh_interval
            /\ pc'[f] = "sign1" <=> clock - StartTime < refresh_interval]_vars

\* C11 witness: the first request through a new authenticator was forwarded
\* without any refresh call, refresh_interval being positive.
C11_Witness ==
    \E f \in Flows :
        /\ pc[f] = "fwd1"
        /\ \A g \in Flows \ {f} : pc[g] = "idle"
        /\ proCalls[f] = 0
        /\ lastOk = 0
        /\ refresh_interval > 0

\* C12: whenever a call of _refresh_signer started by _refresh_if_needed is
\* in progress, at least refresh_interval has elapsed since the latest
\* refresh that returned without raising, proactive or forced.
C12_MinimumDistance ==
    \A f \in Flows :
        (pc[f] = "rin_refresh" /\ lastOk # 0) => clock - lastOk >= refresh_interval

\* C12 witness: a proactive refresh is in progress after an earlier refresh
\* succeeded, refresh_interval being positive.
C12_Witness ==
    \E f \in Flows : pc[f] = "rin_refresh" /\ lastOk # 0 /\ refresh_interval > 0

\* C13: the step that handles a first response whose status is not 401 ends
\* the flow with that response as the caller's, forwards nothing more, calls
\* no refresh, leaves the lock, the signer and _last_refresh as they were;
\* and a flow ended that way takes no further step.
C13_Non401EndsFlow ==
    [][\A f \in Flows :
         /\ (pc[f] = "fwd1" /\ resp1'[f] \notin {0, 401}) =>
               /\ pc'[f] = "done"
               /\ result'[f] = <<1, resp1'[f]>>
               /\ sent'[f] = sent[f] /\ Len(sent[f]) = 1
               /\ forcedCalls'[f] = 0
               /\ lock' = lock
               /\ authVars' = authVars /\ heap' = heap
         /\ (pc[f] = "done" /\ resp1[f] # 401) =>
               /\ pc'[f] = "done"
               /\ sent'[f] = sent[f]
               /\ forcedCalls'[f] = 0
               /\ lock' # f]_vars

\* C13 witness: a flow ended on a 500 answer to its only forwarded request.
C13_Witness ==
    \E f \in Flows :
        pc[f] = "done" /\ resp1[f] = 500 /\ result[f] = <<1, 500>> /\ Len(sent[f]) = 1

\* C14: the body is captured before the first signing, and a retry is
\* prepared from that captured body: both forwarded requests have the
\* method, the URL and the body of the request given to auth_flow.
C14_RetryReusesBody ==
    \A f \in Flows :
        /\ Len(sent[f]) >= 1 => content[f] = Some(httpx_request(f).body)
        /\ \A i \in 1..Len(sent[f]) :
              /\ sent[f][i].request.method = httpx_request(f).method
              /\ sent[f][i].request.url = httpx_request(f).url
              /\ sent[f][i].request.data = content[f][1]

\* C14 witness: a retry with a non-empty body was forwarded, signed by another
\* signer object than the first attempt.
C14_Witness ==
    \E f \in Flows :
        /\ Len(sent[f]) = 2
        /\ sent[f][2].request.data # <<>>
        /\ sent[f][2].signer # sent[f][1].signer

SucceededRefreshes ==
    Cardinality({f \in Flows : proOutcome[f] = "ok"})
    + Cardinality({f \in Flows : forcedOutcome[f] \in {"refreshed", "ok", "signfail"}})

\* C15: self.signer always refers to a complete signer object, the one built
\* at construction or the one built by the latest refresh that returned; no
\* signer object ever differs from what its constructor returned, so the
\* object that signed a forwarded request is still the object it was then.
C15_SignerReplacedNeverMutated ==
    /\ Len(heap) = signer + 1
    /\ signer = SucceededRefreshes
    /\ \A i \in 1..Len(heap) : heap[i] = build_signer(i - 1)
    /\ \A f \in Flows : \A i \in 1..Len(sent[f]) :
          /\ sent[f][i].signer.id < Len(heap)
          /\ heap[sent[f][i].signer.id + 1] = sent[f][i].signer

\* C15 witness: a request signed with the signer built at construction is
\* being forwarded while a refresh made by another flow has replaced
\* self.signer.
C15_Witness ==
    \E f \in Flows :
        /\ pc[f] = "fwd1"
        /\ sent[f][1].signer = build_signer(0)
        /\ signer >= 1
        /\ proCalls[f] = 0

HostPart(url) ==
    LET idx == {i \in 1..Len(url) : url[i] = SLASH}
    IN  IF idx = {} THEN url
        ELSE SubSeq(url, 1, (CHOOSE i \in idx : \A j \in idx : i <= j) - 1)
DesignatesGenerativeAi(url) == Contains(HostPart(url), GENERATIVEAI)
IsPrefix(a, b) == Len(a) <= Len(b) /\ SubSeq(b, 1, Len(a)) = a
EndsWith(a, suffix) ==
    Len(suffix) <= Len(a) /\ SubSeq(a, Len(a) - Len(suffix) + 1, Len(a)) = suffix
OnlyEndpoint ==
    ~Truthy(probe.region) /\ ~Truthy(probe.base_url) /\ Truthy(probe.service_endpoint)

\* C16: when the base URL resolves, construction raises and yields no client
\* exactly when the resolved URL's host names the generative-AI service and
\* the compartment id is None or empty; otherwise it yields a client with
\* the resolved base URL.
C16_GenAiNeedsCompartment ==
    probe.phase = "constructed" =>
        LET r == resolve_base_url(probe.region, probe.service_endpoint, probe.base_url)
        IN  ~r.raised =>
              IF DesignatesGenerativeAi(r.value) /\ ~Truthy(probe.compartment_id)
              THEN probe.out = NoClient
              ELSE ~probe.out.raised /\ probe.out.base_url = r.value

\* C16 witness: construction for a generative-AI endpoint raised because the
\* compartment id was the empty string.
C16_Witness ==
    /\ probe.phase = "constructed"
    /\ probe.out.raised
    /\ probe.compartment_id = Some(EmptyStr)
    /\ probe.service_endpoint = Some(GenAiEndpoint)
    /\ ~Truthy(probe.base_url)

\* C18: a base_url that is supplied is returned unchanged whatever region and
\* service_endpoint are; without base_url, a supplied service_endpoint
\* decides the result and the region makes no difference.
C18_BaseUrlThenEndpoint ==
    probe.phase = "resolved" =>
        /\ Truthy(probe.base_url) =>
              probe.out = [raised |-> FALSE, value |-> probe.base_url[1]]
        /\ (~Truthy(probe.base_url) /\ Truthy(probe.service_endpoint)) =>
              \A r \in Regions :
                  resolve_base_url(r, probe.service_endpoint, probe.base_url) = probe.out

\* C18 witness: all three arguments were supplied and the base URL came back.
C18_Witness ==
    /\ probe.phase = "resolved"
    /\ Truthy(probe.region) /\ Truthy(probe.service_endpoint)
    /\ probe.base_url = Some(DataScienceUrl)
    /\ probe.out.value = DataScienceUrl

\* C19, as stated: with only service_endpoint supplied, /openai/v1 is
\* appended when the host names the generative-AI service and the endpoint
\* has no path; any other endpoint comes back without a suffix appended.
C19_SuffixOnlyForGenAiHost ==
    (probe.phase = "resolved" /\ OnlyEndpoint) =>
        LET e == probe.service_endpoint[1]
            url == probe.out.value
        IN  IF DesignatesGenerativeAi(e)
               /\ ~Contains(rstrip(e, {SLASH, SPACE, TAB}), SLASH)
            THEN EndsWith(url, INFERENCE_PATH)
            ELSE IsPrefix(url, e)

\* C19, amended: with only service_endpoint supplied, the result is the
\* endpoint stripped of trailing slashes and spaces followed by /openai/v1,
\* whatever its host and whatever path it already has.
C19_SuffixAlwaysAppended ==
    (probe.phase = "resolved" /\ OnlyEndpoint) =>
        /\ ~probe.out.raised
        /\ probe.out.value =
              rstrip(probe.service_endpoint[1], {SLASH, SPACE}) \o INFERENCE_PATH

\* C19 witness: a model-deployment endpoint passed as service_endpoint came
\* back with /openai/v1 appended.
C19_Witness ==
    /\ probe.phase = "resolved"
    /\ OnlyEndpoint
    /\ probe.service_endpoint = Some(ModelDeploymentEndpoint)
    /\ probe.out.value = ModelDeploymentEndpoint \o INFERENCE_PATH

\* C20, as stated: a region alone resolves to the generated inference URL,
\* and a generative-AI endpoint followed by any run of slashes and
\* whitespace resolves to the endpoint followed by /openai/v1.
C20_SuffixOnceAfterAnyNoise ==
    probe.phase = "resolved" =>
        /\ (Truthy(probe.region) /\ ~Truthy(probe.service_endpoint)
               /\ ~Truthy(probe.base_url)) =>
              probe.out.value =
                  <<"https://inference.", "generativeai", ".">> \o probe.region[1]
                      \o <<".oci.oraclecloud.com", "/", "openai", "/", "v1">>
        /\ \A t \in Trailers({SLASH, SPACE, TAB}) :
              (~Truthy(probe.base_url) /\ probe.service_endpoint = Some(GenAiEndpoint \o t)) =>
                  probe.out.value = GenAiEndpoint \o <<"/", "openai", "/", "v1">>

\* C20, amended: as stated, for runs of trailing slashes and space
\* characters; the result then holds the suffix once and ends without a
\* slash.
C20_SuffixOnceAfterSlashesAndSpaces ==
    probe.phase = "resolved" =>
        /\ (Truthy(probe.region) /\ ~Truthy(probe.service_endpoint)
               /\ ~Truthy(probe.base_url)) =>
              probe.out.value =
                  <<"https://inference.", "generativeai", ".">> \o probe.region[1]
                      \o <<".oci.oraclecloud.com", "/", "openai", "/", "v1">>
        /\ \A t \in Trailers({SLASH, SPACE}) :
              (~Truthy(probe.base_url) /\ probe.service_endpoint = Some(GenAiEndpoint \o t)) =>
                  /\ probe.out.value = GenAiEndpoint \o <<"/", "openai", "/", "v1">>
                  /\ probe.out.value[Len(probe.out.value)] # SLASH

\* C20 witness: a generative-AI endpoint followed by a slash and a space was
\* resolved to the endpoint plus the suffix.
C20_Witness ==
    /\ probe.phase = "resolved"
    /\ ~Truthy(probe.base_url)
    /\ probe.service_endpoint = Some(GenAiEndpoint \o <<SLASH, SPACE>>)
    /\ probe.out.value = GenAiEndpoint \o INFERENCE_PATH

\* C21: _resolve_base_url raises exactly when none of region,
\* service_endpoint and base_url is supplied (None or empty), and returns a
\* non-empty base URL in every other case.
C21_RaisesIffNothingSupplied ==
    probe.phase = "resolved" =>
        /\ probe.out.raised <=>
              (~Truthy(probe.region) /\ ~Truthy(probe.service_endpoint)
                 /\ ~Truthy(probe.base_url))
        /\ ~probe.out.raised => probe.out.value # EmptyStr

\* C21 witness: a call without any of the three arguments raised.
C21_Witness ==
    /\ probe.phase = "resolved"
    /\ probe.region = None /\ probe.service_endpoint = None /\ probe.base_url = None
    /\ probe.out.raised

\* C22: _build_headers returns CompartmentId and opc-compartment-id, both
\* equal to the compartment id, exactly when a compartment id is supplied,
\* and opc-conversation-store-id exactly when a store id is supplied: 0, 1,
\* 2 or 3 headers, none with an empty value.
C22_HeadersByArguments ==
    probe.phase = "headers" =>
        LET h == probe.out
            c == Truthy(probe.compartment_id)
            st == Truthy(probe.conversation_store_id)
        IN  /\ COMPARTMENT_ID_HEADER \in DOMAIN h <=> c
            /\ OPC_COMPARTMENT_ID_HEADER \in DOMAIN h <=> c
            /\ CONVERSATION_STORE_ID_HEADER \in DOMAIN h <=> st
            /\ c => /\ h[COMPARTMENT_ID_HEADER] = probe.compartment_id[1]
                    /\ h[OPC_COMPARTMENT_ID_HEADER] = probe.compartment_id[1]
            /\ st => h[CONVERSATION_STORE_ID_HEADER] = probe.conversation_store_id[1]
            /\ Cardinality(DOMAIN h) = (IF c THEN 2 ELSE 0) + (IF st THEN 1 ELSE 0)
            /\ \A n \in DOMAIN h : h[n] # EmptyStr

\* C22 witness: both ids were supplied and three headers came back.
C22_Witness ==
    /\ probe.phase = "headers"
    /\ Truthy(probe.compartment_id) /\ Truthy(probe.conversation_store_id)
    /\ Cardinality(DOMAIN probe.out) = 3

\* C23: constructing OciSessionAuth from a profile without a key_file entry
\* or without a security_token_file entry (absent or empty) raises and yields
\* no authenticator.
C23_SessionFailsFast ==
    probe.phase = "session" =>
        ((~Truthy(probe.profile.key_file) \/ ~Truthy(probe.profile.security_token_file)) =>
            probe.out.raised /\ probe.out.auth = None)

\* C23 witness: a profile with a readable token file and no key_file entry
\* made the constructor raise KeyError.
C23_Witness ==
    /\ probe.phase = "session"
    /\ Truthy(probe.profile.security_token_file) /\ probe.profile.token_file_exists
    /\ probe.profile.key_file = None
    /\ probe.out = NoAuth("KeyError")

\* C25: the retry of a flow is signed by the signer object that the flow's
\* own forced refresh installed: from the return of that refresh to the
\* signing of the retry the flow holds the lock and self.signer stays the
\* signer it installed, whatever the other flows do.
C25_RetrySignedByOwnRefresh ==
    \A f \in Flows :
        /\ pc[f] = "r401_sign" => (lock = f /\ signer = forcedSigner[f])
        /\ Len(sent[f]) = 2 =>
              /\ forcedSigner[f] >= 1
              /\ sent[f][2].signer = heap[forcedSigner[f] + 1]

\* C25 witness: two flows were answered 401 and both forwarded a retry, each
\* signed by the signer of its own forced refresh.
C25_Witness ==
    \E f, g \in Flows :
        /\ f # g
        /\ Len(sent[f]) = 2 /\ Len(sent[g]) = 2
        /\ sent[f][2].signer.id = forcedSigner[f]
        /\ sent[g][2].signer.id = forcedSigner[g]
        /\ forcedSigner[f] # forcedSigner[g]

\* C26: self.signer is assigned only by a step of a flow that is inside
\* _refresh_signer (called by _refresh_if_needed or by the 401 branch), the
\* authenticator's variant never changes, and the signer current after
\* any step is of the kind that was built at construction.
C26_SignerChangesOnlyInRefresh ==
    [][/\ (signer' # signer \/ heap' # heap) =>
            \E f \in Flows : pc[f] \in {"rin_refresh", "r401_refresh"} /\ pc'[f] # pc[f]
       /\ variant' = variant
       /\ heap'[signer' + 1].variant = heap[1].variant
       /\ heap[1].variant = signer_class(variant)]_vars

\* C26 witness: a user-principal authenticator whose signer was replaced by
\* a proactive refresh and by a forced one.
C26_Witness ==
    /\ variant = "user_principal"
    /\ signer >= 2
    /\ heap[signer + 1].variant = "Signer"
    /\ \E f, g \in Flows : proOutcome[f] = "ok" /\ forcedOutcome[g] = "ok"

\* C27: the step in which a call of _refresh_if_needed makes its check under
\* the lock starts exactly one call of _refresh_signer when at least
\* refresh_interval has elapsed since _last_refresh and none otherwise, so
\* always one when refresh_interval = 0; no other step of the call starts
\* one.
C27_OneRefreshIffStale ==
    [][\A f \in Flows :
         /\ (pc[f] = "rin_lock" /\ pc'[f] # "rin_lock") =>
               /\ proCalls[f] = 0
               /\ IF clock - last_refresh[1] >= refresh_interval
                  THEN proCalls'[f] = 1 /\ pc'[f] = "rin_refresh" /\ lock' = f
                  ELSE proCalls'[f] = 0 /\ pc'[f] = "sign1"
               /\ refresh_interval = 0 => proCalls'[f] = 1
         /\ proCalls'[f] # proCalls[f] => pc[f] = "rin_lock"]_vars

\* C27 witness: one call of _refresh_if_needed found the policy Stale and
\* called the refresh, another found it Fresh and did not.
C27_Witness ==
    \E f, g \in Flows :
        /\ PastRefreshIfNeeded(f) /\ proCalls[f] = 1
        /\ PastRefreshIfNeeded(g) /\ proCalls[g] = 0

\* Calls of _refresh_signer that have returned or raised, over all flows.
CompletedRefreshCalls ==
    LET done(f) == (proCalls[f] - (IF pc[f] = "rin_refresh" THEN 1 ELSE 0))
                   + (forcedCalls[f] - (IF pc[f] = "r401_refresh" THEN 1 ELSE 0))
        RECURSIVE sum(_)
        sum(n) == IF n = 0 THEN 0 ELSE done(n) + sum(n - 1)
    IN  sum(NumFlows)

\* C28: for the resource-principal and instance-principal authenticators,
\* the identity service has received one signer request at construction and
\* one per call of _refresh_signer since, all with the keyword arguments
\* given at construction, and self.signer is the signer returned by the
\* latest request that returned one.
C28_PrincipalRefreshAsksOnce ==
    variant \in PrincipalVariants =>
        /\ identity.requests = 1 + CompletedRefreshCalls
        /\ identity.kwargs = {SignerKwargs}
        /\ identity.issued = Some(signer)
        /\ heap[signer + 1].id = signer
        /\ heap[signer + 1].variant = signer_class(variant)

\* C28 witness: an instance-principal authenticator after three calls of
\* _refresh_signer, two of which returned a signer.
C28_Witness ==
    /\ variant = "instance_principal"
    /\ CompletedRefreshCalls = 3
    /\ identity.requests = 4
    /\ signer = 2
    /\ identity.issued = Some(2)

\* C29: every request whose first attempt was answered 401 makes its own
\* forced refresh call, exactly one, and forwards at most one retry,
\* whatever the other requests do: a request answered 401 has made its call
\* or is still going to (it can take the lock, or the flow holding the lock
\* can still run and release it), and no request makes a forced refresh
\* call without a 401 of its own or more than one.
C29_ForcedRefreshPerRequest ==
    \A f \in Flows :
        /\ forcedCalls[f] <= 1
        /\ Len(sent[f]) <= 1 + forcedCalls[f]
        /\ forcedCalls[f] = 1 => resp1[f] = 401
        /\ (resp1[f] = 401 /\ forcedCalls[f] = 0) =>
              /\ pc[f] = "r401_lock"
              /\ \/ ENABLED auth_flow_retry_acquire(f)
                 \/ \E g \in Flows \ {f} : lock = g /\ ENABLED FlowNext(g)

\* C30: a flow that has ended -- its generator returned, raised, or was
\* closed by the HTTP client at a yield -- does not hold the lock.
C30_EndedFlowHoldsNoLock ==
    \A f \in Flows : pc[f] \in {"done", "raised", "closed"} => lock # f

\* C30 witness: one flow was closed while suspended at its retry, another
\* ended because its forced refresh raised, and the lock is free.
C30_Witness ==
    \E f, g \in Flows :
        /\ pc[f] = "closed" /\ Len(sent[f]) = 2
        /\ pc[g] = "done" /\ forcedOutcome[g] = "fail"
        /\ lock = NoFlow

\* C31: _last_refresh is assigned only by the step in which a call of
\* _refresh_signer returns (from _refresh_if_needed or from the 401 branch)
\* and then becomes the current time; it never decreases, and after every
\* step it is the construction time if no refresh has returned yet, else
\* the time at which the latest refresh returned.
C31_LastRefreshIsLatestSuccess ==
    [][/\ last_refresh' # last_refresh =>
            /\ last_refresh' = Some(clock)
            /\ \E f \in Flows :
                  \/ pc[f] = "rin_refresh" /\ proOutcome'[f] = "ok"
                  \/ pc[f] = "r401_refresh" /\ forcedOutcome'[f] = "refreshed"
       /\ last_refresh # None /\ last_refresh' # None
       /\ last_refresh'[1] >= last_refresh[1]
       /\ last_refresh' = Some(IF lastOk' = 0 THEN StartTime ELSE lastOk')]_vars

\* C31 witness: after the clock advanced, a proactive refresh returned and
\* later a forced one; _last_refresh is the time of the later.
C31_Witness ==
    \E f, g \in Flows :
        /\ proOutcome[f] = "ok" /\ refreshedAt[f] > StartTime
        /\ forcedOutcome[g] = "ok"
        /\ lastOk > refreshedAt[f]
        /\ last_refresh = Some(lastOk)

\* C32: while a proactive refresh has raised and no refresh has returned
\* since, at least refresh_interval has elapsed since _last_refresh, so each
\* call of _refresh_if_needed then calls _refresh_signer, once; the step in
\* which a proactive refresh returns ends that condition and, when
\* refresh_interval is positive, leaves less than refresh_interval elapsed;
\* and a call of _refresh_if_needed made less than refresh_interval after
\* the latest refresh that returned does not call _refresh_signer.
C32_StaleUntilRefreshSucceeds ==
    [][/\ proFailed' => clock' - last_refresh'[1] >= refresh_interval
       /\ \A f \in Flows :
            /\ (pc[f] = "rin_lock" /\ pc'[f] # "rin_lock" /\ proFailed) =>
                  pc'[f] = "rin_refresh" /\ proCalls[f] = 0 /\ proCalls'[f] = 1
            /\ (pc[f] = "rin_refresh" /\ proOutcome'[f] = "fail") =>
                  proFailed' /\ last_refresh' = last_refresh /\ lock' = NoFlow
            /\ (pc[f] = "rin_refresh" /\ proOutcome'[f] = "ok") =>
                  /\ ~proFailed'
                  /\ refresh_interval > 0 => clock' - last_refresh'[1] < refresh_interval
            /\ (pc[f] = "rin_lock" /\ pc'[f] # "rin_lock"
                  /\ lastOk # 0 /\ clock - lastOk < refresh_interval) =>
                  pc'[f] = "sign1" /\ proCalls'[f] = 0]_vars

\* C32 witness: the proactive refresh of one request raised, the next
\* request tried again and its refresh returned, refresh_interval being
\* positive.
C32_Witness ==
    \E f, g \in Flows :
        /\ proOutcome[f] = "fail"
        /\ proOutcome[g] = "ok"
        /\ f < g
        /\ ~proFailed
        /\ refresh_interval > 0
        /\ forcedCalls[f] = 0 /\ forcedCalls[g] = 0

\* C33: for the user-principal authenticator, self.config is always the
\* read of the configuration file from which the current signer was built,
\* also after a refresh that raised.
C33_ConfigMatchesSigner ==
    variant = "user_principal" => config = Some(heap[signer + 1].id)

\* C34: one request calls _refresh_signer at most twice -- at most once from
\* _refresh_if_needed, before anything is forwarded, and at most once from
\* the 401 branch -- and is forwarded at most twice, the second time only
\* after its forced call; this holds in every state, whatever the staleness,
\* the outcomes of the refreshes and the response statuses were.
C34_TwoRefreshesTwoForwards ==
    \A f \in Flows :
        /\ proCalls[f] \in {0, 1}
        /\ forcedCalls[f] \in {0, 1}
        /\ Len(sent[f]) \in {0, 1, 2}
        /\ Len(sent[f]) = 2 => forcedCalls[f] = 1
        /\ forcedCalls[f] = 1 => Len(sent[f]) >= 1
        /\ (proCalls[f] = 1 /\ proOutcome[f] = "none") => Len(sent[f]) = 0

\* C34 witness: a request that used both refreshes and both forwards: its
\* proactive refresh raised, its first attempt was answered 401, its forced
\* refresh returned and its retry was answered 401 as well.
C34_Witness ==
    \E f \in Flows :
        /\ proCalls[f] = 1 /\ proOutcome[f] = "fail"
        /\ forcedCalls[f] = 1
        /\ Len(sent[f]) = 2
        /\ pc[f] = "done"
        /\ result[f] = <<2, 401>>

====
